---- MODULE Spec2Model ----
(***************************************************************************)
(* bevy_fundsp: the DspManager registry of DSP graph functions keyed by    *)
(* TypeId, the DspAssets handle table produced by add_assets, and the      *)
(* DspPlugin startup schedule that runs generate_assets.                   *)
(***************************************************************************)
EXTENDS Integers, Sequences, FiniteSets, TLC

\* ------------------------------------------------------------------ bounds
\* Graph lengths (f64 seconds in the source) are drawn from 1..MaxLength.
MaxLength == 2
\* The asset store holds at most MaxStore assets (guards add_assets).
MaxStore == 2

\* ------------------------------------------------------------- input sets
\* Graph function definitions of the calling code (fn items / closures).
Defs == {"f1", "f2"}
\* A definition is passed as itself (a zero-sized fn item or closure type,
\* unique per definition) or coerced to a function pointer fn() -> X.
Forms == {"item", "ptr"}
Factories == [def : Defs, form : Forms]
Lengths == 1..MaxLength
DefaultSettings == "default"
Settings == {DefaultSettings, "custom"}

\* Concrete return type X of a definition; both definitions build the same
\* kind of graph.
ReturnType(d) == "X"

\* Option<T>: None is the empty sequence, Some(x) the one-element sequence.
None == <<>>
Some(x) == <<x>>

\* ------------------------------------------------------------ type identity
\* The Rust type F of a factory value; refs counts leading `&`.
TypeOfFactory(f) ==
    IF f.form = "item"
    THEN [kind |-> "FnItem", name |-> f.def, refs |-> 0]
    ELSE [kind |-> "FnPtr", name |-> ReturnType(f.def), refs |-> 0]

RefTo(T) == [T EXCEPT !.refs = @ + 1]

\* TypeId::of::<T>(): one id per type (ids are represented by the type).
TypeIdOf(T) == T

\* Any::type_id(x) with x : &Self, so Self is the argument's type with one
\* reference removed.
AnyTypeId(argType) == TypeIdOf([argType EXCEPT !.refs = @ - 1])

\* Every key the calling code can produce.
TypeIds == {TypeIdOf(TypeOfFactory(f)) : f \in Factories}

\* ---------------------------------------------------------------- DspGraph
\* FnDspGraph::generate_graph: calls the function, boxes the graph.
GenerateGraph(func) == [builtBy |-> func.def]

DspGraphNew(func, length) ==
    [func |-> func, length |-> length, settings |-> DefaultSettings]

DspGraphWithSettings(func, length, settings) ==
    [func |-> func, length |-> length, settings |-> settings]

DspSourceFromBoxed(graph, length) == [graph |-> graph, length |-> length]

\* ---------------------------------------------------------------- HashMap
MapInsert(m, k, v) == [x \in DOMAIN m \cup {k} |-> IF x = k THEN v ELSE m[x]]
MapRemove(m, k) == [x \in DOMAIN m \ {k} |-> m[x]]
MapGet(m, k) == IF k \in DOMAIN m THEN Some(m[k]) ELSE None
EmptyMap == [x \in {} |-> 0]

\* HashMap iteration orders: every enumeration of the key set.
Orders(S) ==
    {o \in [1..Cardinality(S) -> S] : \A i, j \in DOMAIN o : o[i] = o[j] => i = j}

\* -------------------------------------------------------------- DspSource
\* DspManager::default: sample_rate.
SampleRate == 44100

\* What can happen to one source on its way to sound data: the wave is
\* written and decoded, write_wav16 fails, or the decoder rejects the bytes.
Outcomes == {"ok", "write_error", "decode_error"}

NoPanic == "none"
PanicCannotWrite == "Cannot write wave to buffer"
PanicCannotConvert == "Cannot convert DSP source to sound data"
PanicAssetMissing == "DSP asset does not exist with the key"

\* DspSource::generate_raw_bytes: renders the graph for `length` seconds at
\* sample_rate and writes it as a 16-bit wave; panics when the write fails.
GenerateRawBytes(source, sample_rate, outcome) ==
    IF outcome = "write_error"
    THEN [panic |-> PanicCannotWrite, bytes |-> None]
    ELSE [panic |-> NoPanic,
          bytes |-> [graph |-> source.graph, length |-> source.length,
                     sample_rate |-> sample_rate]]

\* DspSource::into_kira_sound_data: StaticSoundData::from_cursor on the raw
\* bytes with the settings; Err when the decoder rejects them.
IntoKiraSoundData(source, sample_rate, settings, outcome) ==
    LET raw_bytes == GenerateRawBytes(source, sample_rate, outcome)
    IN  IF raw_bytes.panic # NoPanic
        THEN [panic |-> raw_bytes.panic, ok |-> FALSE, sound |-> None]
        ELSE IF outcome = "decode_error"
        THEN [panic |-> NoPanic, ok |-> FALSE, sound |-> None]
        ELSE [panic |-> NoPanic, ok |-> TRUE,
              sound |-> [wave |-> raw_bytes.bytes, settings |-> settings]]

\* Assets::add: stores the asset under a new handle and returns the handle.
AssetsAdd(store, asset) == [assets |-> Append(store, asset), handle |-> Len(store) + 1]

\* ------------------------------------------------------------- DspManager
\* DspManager::default.
DspManagerDefault == EmptyMap

\* add_graph with or_insert instead of insert: an existing entry is kept.
AddGraphKeepFirst(g, f, length) ==
    IF TypeIdOf(TypeOfFactory(f)) \in DOMAIN g
    THEN g
    ELSE MapInsert(g, TypeIdOf(TypeOfFactory(f)), DspGraphNew(f, length))

\* add_graph taking f : fn() -> X instead of a generic F: the key is the
\* function pointer type.
AddGraphAsFnPointer(g, f, length) ==
    MapInsert(g, TypeIdOf(TypeOfFactory([f EXCEPT !.form = "ptr"])),
              DspGraphNew(f, length))

\* DspManager::add_graph.
AddGraph(g, f, length) ==
    MapInsert(g, TypeIdOf(TypeOfFactory(f)), DspGraphNew(f, length))

\* DspManager::add_graph_with_settings.
AddGraphWithSettings(g, f, length, settings) ==
    MapInsert(g, TypeIdOf(TypeOfFactory(f)), DspGraphWithSettings(f, length, settings))

\* remove_graph with Any::type_id(&f): the key is the id of &F.
RemoveGraphByRefType(g, f) == MapRemove(g, AnyTypeId(RefTo(RefTo(TypeOfFactory(f)))))

\* DspManager::remove_graph, called with f : &F.
RemoveGraph(g, f) == MapRemove(g, AnyTypeId(RefTo(TypeOfFactory(f))))

\* get_graph that builds one graph to probe the entry and another to return.
GetGraphCallsTwice(g, f) ==
    LET e == MapGet(g, AnyTypeId(RefTo(TypeOfFactory(f))))
    IN  IF e = None
        THEN [out |-> None, calls |-> <<>>]
        ELSE [out |-> Some(DspSourceFromBoxed(GenerateGraph(e[1].func), e[1].length)),
              calls |-> <<e[1].func.def, e[1].func.def>>]

\* DspManager::get_graph, called with f : &F.  calls lists the definitions
\* whose function was invoked.
GetGraph(g, f) ==
    LET e == MapGet(g, AnyTypeId(RefTo(TypeOfFactory(f))))
    IN  IF e = None
        THEN [out |-> None, calls |-> <<>>]
        ELSE [out |-> Some(DspSourceFromBoxed(GenerateGraph(e[1].func), e[1].length)),
              calls |-> <<e[1].func.def>>]

\* DspAssets::new.
DspAssetsNew(handles) == [handles |-> handles]

\* The closure of add_assets' map, applied to the entries from position i on
\* in the HashMap's iteration order `order`; verdict gives each entry's
\* outcome.  A failure panics: nothing is collected or returned.
RECURSIVE AddAssetsFrom(_, _, _, _, _, _, _)
AddAssetsFrom(g, store, order, verdict, i, handles, calls) ==
    IF i > Len(order)
    THEN [panic |-> NoPanic, assets |-> store, out |-> Some(DspAssetsNew(handles)),
          calls |-> calls]
    ELSE LET type_id == order[i]
             graph == g[type_id]
             audio_graph == GenerateGraph(graph.func)
             dsp_source == DspSourceFromBoxed(audio_graph, graph.length)
             sound == IntoKiraSoundData(dsp_source, SampleRate, graph.settings,
                                        verdict[type_id])
             called == Append(calls, graph.func.def)
         IN  IF sound.panic # NoPanic
             THEN [panic |-> sound.panic, assets |-> store, out |-> None,
                   calls |-> called]
             ELSE IF ~sound.ok
             THEN [panic |-> PanicCannotConvert, assets |-> store, out |-> None,
                   calls |-> called]
             ELSE LET added == AssetsAdd(store, [sound |-> sound.sound])
                  IN  AddAssetsFrom(g, added.assets, order, verdict, i + 1,
                                    MapInsert(handles, type_id, added.handle), called)

\* add_assets converting with StaticSoundSettings::default() instead of the
\* entry's settings.
AddAssetsDefaultSettings(g, store, order, verdict) ==
    AddAssetsFrom([k \in DOMAIN g |-> [g[k] EXCEPT !.settings = DefaultSettings]],
                  store, order, verdict, 1, EmptyMap, <<>>)

\* add_assets with filter_map: an entry that fails to convert is skipped.
AddAssetsSkipFailed(g, store, order, verdict) ==
    LET good(k) == verdict[k] = "ok"
    IN  AddAssetsFrom(g, store, SelectSeq(order, good), verdict, 1, EmptyMap, <<>>)

\* add_assets that empties the store before it adds its sounds.
AddAssetsClearingStore(g, store, order, verdict) ==
    AddAssetsFrom(g, <<>>, order, verdict, 1, EmptyMap, <<>>)

\* DspManager::add_assets.
AddAssets(g, store, order, verdict) ==
    AddAssetsFrom(g, store, order, verdict, 1, EmptyMap, <<>>)

\* --------------------------------------------------------------- DspAssets
\* DspAssets::get_graph, called with f : F and looked up by Any::type_id(&f).
DspAssetsGetGraph(t, f) == MapGet(t.handles, AnyTypeId(RefTo(TypeOfFactory(f))))

\* graph with unwrap_or_default: a missing key yields the default handle.
DspAssetsGraphOrDefault(t, f) ==
    LET h == MapGet(t.handles, AnyTypeId(RefTo(TypeOfFactory(f))))
    IN  IF h = None
        THEN [panic |-> NoPanic, out |-> Some(0)]
        ELSE [panic |-> NoPanic, out |-> h]

\* DspAssets::graph: the handle, or a panic when the key is missing.
DspAssetsGraph(t, f) ==
    LET h == MapGet(t.handles, AnyTypeId(RefTo(TypeOfFactory(f))))
    IN  IF h = None
        THEN [panic |-> PanicAssetMissing, out |-> None]
        ELSE [panic |-> NoPanic, out |-> h]

\* --------------------------------------------------------------- DspPlugin
AddDspAssetsStage == "add_dsp_assets_stage"

\* Bevy's startup schedule before any plugin changes it.
DefaultStartupSchedule == <<"PreStartup", "Startup", "PostStartup">>

\* App::add_startup_stage_before(target, label, ..).
AddStartupStageBefore(schedule, target, label) ==
    LET at == CHOOSE i \in DOMAIN schedule : schedule[i] = target
    IN  SubSeq(schedule, 1, at - 1) \o <<label>> \o SubSeq(schedule, at, Len(schedule))

\* App::add_startup_stage_after(target, label, ..).
AddStartupStageAfter(schedule, target, label) ==
    LET at == CHOOSE i \in DOMAIN schedule : schedule[i] = target
    IN  SubSeq(schedule, 1, at) \o <<label>> \o SubSeq(schedule, at + 1, Len(schedule))

\* build with add_startup_stage_after(StartupStage::PostStartup, ..).
StartupScheduleAfterPostStartup ==
    AddStartupStageAfter(DefaultStartupSchedule, "PostStartup", AddDspAssetsStage)

\* The startup schedule DspPlugin::build leaves behind.
StartupSchedule ==
    AddStartupStageBefore(DefaultStartupSchedule, "PostStartup", AddDspAssetsStage)

\* ------------------------------------------------------------------- state
VARIABLES
    graphs,     \* DspManager.graphs : HashMap<TypeId, DspGraph>
    assets,     \* Assets<AudioSource>, a handle is an index into it
    dspAssets,  \* the DspAssets resource, None until inserted
    stageIdx,   \* position in StartupSchedule; past its end: the main loop
    panic,      \* the panic that has aborted the application, if any
    generated,  \* how many times the generate_assets system has run
    last        \* the last DspManager / DspAssets call and what it returned

vars == <<graphs, assets, dspAssets, stageIdx, panic, generated, last>>

CurStage ==
    IF stageIdx <= Len(StartupSchedule) THEN StartupSchedule[stageIdx] ELSE "Update"

\* op, f, length, settings: the call and its arguments; old: what the
\* HashMap's insert or remove returned (the entry it displaced); out: the
\* value returned; calls: the definitions whose function was invoked, in
\* order; bad: the keys whose conversion did not succeed.
NoCall == [op |-> "none", f |-> None, length |-> 0, settings |-> None,
           old |-> None, out |-> None, calls |-> <<>>, bad |-> {}]

\* An asset some other part of the application put in the store.
OtherAsset == [sound |-> "other"]

\* DspPlugin::build has run: the manager exists and is empty, the schedule
\* is at its first stage.  The store already holds another asset.
Init ==
    /\ graphs = DspManagerDefault
    /\ assets = <<OtherAsset>>
    /\ dspAssets = None
    /\ stageIdx = 1
    /\ panic = NoPanic
    /\ generated = 0
    /\ last = NoCall

\* Systems of the calling code run in every stage but the plugin's own.
UserStage == panic = NoPanic /\ CurStage # AddDspAssetsStage

DoAddGraph(f, length) ==
    /\ UserStage
    /\ graphs' = AddGraph(graphs, f, length)
    /\ last' = [NoCall EXCEPT !.op = "add_graph", !.f = Some(f), !.length = length,
                              !.old = MapGet(graphs, TypeIdOf(TypeOfFactory(f)))]
    /\ UNCHANGED <<assets, dspAssets, stageIdx, panic, generated>>

DoAddGraphWithSettings(f, length, settings) ==
    /\ UserStage
    /\ graphs' = AddGraphWithSettings(graphs, f, length, settings)
    /\ last' = [NoCall EXCEPT !.op = "add_graph_with_settings", !.f = Some(f),
                              !.length = length, !.settings = Some(settings),
                              !.old = MapGet(graphs, TypeIdOf(TypeOfFactory(f)))]
    /\ UNCHANGED <<assets, dspAssets, stageIdx, panic, generated>>

DoRemoveGraph(f) ==
    /\ UserStage
    /\ graphs' = RemoveGraph(graphs, f)
    /\ last' = [NoCall EXCEPT !.op = "remove_graph", !.f = Some(f),
                              !.old = MapGet(graphs, AnyTypeId(RefTo(TypeOfFactory(f))))]
    /\ UNCHANGED <<assets, dspAssets, stageIdx, panic, generated>>

DoGetGraph(f) ==
    /\ UserStage
    /\ LET r == GetGraph(graphs, f)
       IN  last' = [NoCall EXCEPT !.op = "get_graph", !.f = Some(f),
                                  !.out = r.out, !.calls = r.calls]
    /\ UNCHANGED <<graphs, assets, dspAssets, stageIdx, panic, generated>>

\* A system of the calling code calls add_assets itself and inserts the
\* returned DspAssets as the resource.
DoAddAssets(order, verdict) ==
    /\ UserStage
    /\ Len(assets) + Cardinality(DOMAIN graphs) <= MaxStore
    /\ LET r == AddAssets(graphs, assets, order, verdict)
       IN  /\ assets' = r.assets
           /\ panic' = r.panic
           /\ dspAssets' = IF r.panic # NoPanic THEN dspAssets ELSE r.out
           /\ last' = [NoCall EXCEPT !.op = "add_assets", !.out = r.out,
                                     !.calls = r.calls,
                                     !.bad = {k \in DOMAIN verdict : verdict[k] # "ok"}]
    /\ UNCHANGED <<graphs, stageIdx, generated>>

\* generate_assets extending the DspAssets resource that is already there.
GenerateAssetsExtending(order, verdict) ==
    /\ panic = NoPanic
    /\ CurStage = AddDspAssetsStage
    /\ LET r == AddAssets(graphs, assets, order, verdict)
           merged(old, new) ==
               [k \in DOMAIN old \cup DOMAIN new |->
                    IF k \in DOMAIN new THEN new[k] ELSE old[k]]
       IN  /\ assets' = r.assets
           /\ panic' = r.panic
           /\ dspAssets' =
                 IF r.panic # NoPanic THEN dspAssets
                 ELSE IF dspAssets = None THEN r.out
                 ELSE Some(DspAssetsNew(merged(dspAssets[1].handles, r.out[1].handles)))
           /\ stageIdx' = IF r.panic # NoPanic THEN stageIdx ELSE stageIdx + 1
           /\ last' = [NoCall EXCEPT !.op = "generate_assets", !.out = r.out,
                                     !.calls = r.calls,
                                     !.bad = {k \in DOMAIN verdict : verdict[k] # "ok"}]
    /\ generated' = generated + 1
    /\ UNCHANGED graphs

\* The generate_assets system, the only system of AddDspAssetsStage; its
\* insert_resource command is applied when the stage ends.
GenerateAssets(order, verdict) ==
    /\ panic = NoPanic
    /\ CurStage = AddDspAssetsStage
    /\ LET r == AddAssets(graphs, assets, order, verdict)
       IN  /\ assets' = r.assets
           /\ panic' = r.panic
           /\ dspAssets' = IF r.panic # NoPanic THEN dspAssets ELSE r.out
           /\ stageIdx' = IF r.panic # NoPanic THEN stageIdx ELSE stageIdx + 1
           /\ last' = [NoCall EXCEPT !.op = "generate_assets", !.out = r.out,
                                     !.calls = r.calls,
                                     !.bad = {k \in DOMAIN verdict : verdict[k] # "ok"}]
    /\ generated' = generated + 1
    /\ UNCHANGED graphs

DoDspAssetsGetGraph(f) ==
    /\ UserStage
    /\ dspAssets # None
    /\ last' = [NoCall EXCEPT !.op = "assets_get_graph", !.f = Some(f),
                              !.out = DspAssetsGetGraph(dspAssets[1], f)]
    /\ UNCHANGED <<graphs, assets, dspAssets, stageIdx, panic, generated>>

DoDspAssetsGraph(f) ==
    /\ UserStage
    /\ dspAssets # None
    /\ LET r == DspAssetsGraph(dspAssets[1], f)
       IN  /\ panic' = r.panic
           /\ last' = [NoCall EXCEPT !.op = "assets_graph", !.f = Some(f),
                                     !.out = r.out]
    /\ UNCHANGED <<graphs, assets, dspAssets, stageIdx, generated>>

\* A startup stage of the calling code's systems ends.
EndStage ==
    /\ UserStage
    /\ stageIdx <= Len(StartupSchedule)
    /\ stageIdx' = stageIdx + 1
    /\ UNCHANGED <<graphs, assets, dspAssets, panic, generated, last>>

\* The calling code of the full pipeline registers its graph functions as
\* fn items.
ItemFactories == {f \in Factories : f.form = "item"}

\* Registration, the plugin's startup pass and lookups in the handle table.
Next ==
    \/ \E f \in ItemFactories, l \in Lengths : DoAddGraph(f, l)
    \/ \E f \in ItemFactories, l \in Lengths, s \in Settings :
          DoAddGraphWithSettings(f, l, s)
    \/ \E f \in ItemFactories : DoRemoveGraph(f)
    \/ \E f \in ItemFactories : DoGetGraph(f)
    \/ \E o \in Orders(DOMAIN graphs), v \in [DOMAIN graphs -> Outcomes] :
          GenerateAssets(o, v)
    \/ \E f \in ItemFactories : DoDspAssetsGetGraph(f)
    \/ \E f \in ItemFactories : DoDspAssetsGraph(f)
    \/ EndStage

Spec == Init /\ [][Next]_vars

\* Registration, the plugin's startup pass and later add_assets calls of the
\* calling code.
NextRerender ==
    \/ \E f \in ItemFactories, l \in Lengths : DoAddGraph(f, l)
    \/ \E f \in ItemFactories : DoRemoveGraph(f)
    \/ \E o \in Orders(DOMAIN graphs), v \in [DOMAIN graphs -> Outcomes] :
          GenerateAssets(o, v)
    \/ \E o \in Orders(DOMAIN graphs), v \in [DOMAIN graphs -> Outcomes] :
          DoAddAssets(o, v)
    \/ EndStage

SpecRerender == Init /\ [][NextRerender]_vars

\* The DspManager on its own, with graph functions passed in either form.
NextManager ==
    \/ \E f \in Factories, l \in Lengths : DoAddGraph(f, l)
    \/ \E f \in Factories, l \in Lengths, s \in Settings :
          DoAddGraphWithSettings(f, l, s)
    \/ \E f \in Factories : DoRemoveGraph(f)
    \/ \E f \in Factories : DoGetGraph(f)

SpecManager == Init /\ [][NextManager]_vars

\* ------------------------------------------------------------------ claims
AddOps == {"add_graph", "add_graph_with_settings"}

\* The identity derived when a factory is registered, and the identity
\* derived from a witness value of it at lookup or removal.
RegisteredId(f) == TypeIdOf(TypeOfFactory(f))
WitnessId(f) == AnyTypeId(RefTo(TypeOfFactory(f)))

\* The keys whose entry was registered from a factory of f's type.
EntriesOfType(g, f) ==
    {k \in DOMAIN g : TypeOfFactory(g[k].func) = TypeOfFactory(f)}

\* C1: last write wins.  Right after add(F, d2) or add_with_settings(F, d2, s),
\* whatever was registered before, the registry holds exactly one entry for
\* F's identity and get(F) returns a source built by F with duration d2.
C1_LastWriteWins ==
    last.op \in AddOps =>
        LET f == last.f[1]
        IN  /\ Cardinality(EntriesOfType(graphs, f)) = 1
            /\ GetGraph(graphs, f).out =
                  Some(DspSourceFromBoxed(GenerateGraph(f), last.length))

\* An add has just replaced an entry of the same factory that had another
\* duration.
C1_Witness ==
    /\ last.op \in AddOps
    /\ last.old # None
    /\ last.old[1].func = last.f[1]
    /\ last.old[1].length # last.length
    /\ GetGraph(graphs, last.f[1]).out[1].length = last.length

\* C3: remove(F) followed by get(F) yields absent whether or not F was
\* registered; removing an absent identity leaves the registry unchanged,
\* removing a present one deletes only that entry.
C3_RemoveThenAbsent ==
    [][last'.op = "remove_graph" =>
        LET f == last'.f[1]
        IN  /\ GetGraph(graphs', f).out = None
            /\ WitnessId(f) \notin DOMAIN graphs => graphs' = graphs
            /\ \A k \in TypeIds \ {WitnessId(f)} : MapGet(graphs', k) = MapGet(graphs, k)
    ]_vars

\* A remove has just deleted a present entry and another entry is left.
C3_Witness ==
    /\ last.op = "remove_graph"
    /\ last.old # None
    /\ DOMAIN graphs # {}
    /\ GetGraph(graphs, last.f[1]).out = None

\* C4 as stated: factories of distinct definitions have different
\* identities, so an add never displaces an entry registered from another
\* definition, and the identity at registration is the one at lookup.
C4_DistinctDefinitions ==
    /\ last.op \in AddOps /\ last.old # None => last.old[1].func.def = last.f[1].def
    /\ \A f \in Factories : RegisteredId(f) = WitnessId(f)

\* C4 as amended: factories of distinct types have different identities (two
\* definitions passed as fn items always do; two definitions coerced to the
\* same function pointer type share one), so an add displaces only an entry
\* registered from a factory of the same type, every entry is found again by
\* a witness of the factory it was registered from, and entries of fn items
\* of distinct definitions coexist.
C4_DistinctTypes ==
    /\ last.op \in AddOps /\ last.old # None =>
          TypeOfFactory(last.old[1].func) = TypeOfFactory(last.f[1])
    /\ \A k \in DOMAIN graphs : WitnessId(graphs[k].func) = k
    /\ \A f1, f2 \in Factories :
          f1.form = "item" /\ f2.form = "item" /\ f1.def # f2.def
              => RegisteredId(f1) # WitnessId(f2)
    /\ \A f \in Factories : RegisteredId(f) = WitnessId(f)

\* Two fn items of distinct definitions are registered with the same duration
\* and settings, the second one just added.
C4_Witness ==
    /\ last.op = "add_graph"
    /\ last.old = None
    /\ \E k \in DOMAIN graphs :
          /\ graphs[k].func.def # last.f[1].def
          /\ graphs[k].func.form = "item" /\ last.f[1].form = "item"
          /\ graphs[k].length = last.length
          /\ graphs[k].settings = DefaultSettings
          /\ GetGraph(graphs, graphs[k].func).calls = <<graphs[k].func.def>>

\* C9: get never caches and never mutates.  get(F) on a present identity
\* invokes the stored factory exactly once and pairs the new graph with the
\* stored duration; on an absent identity it returns absent and invokes
\* nothing; the registry is unchanged either way.
C9_GetIsPure ==
    [][last'.op = "get_graph" =>
        LET id == WitnessId(last'.f[1])
        IN  /\ graphs' = graphs
            /\ id \in DOMAIN graphs =>
                  /\ last'.calls = <<graphs[id].func.def>>
                  /\ last'.out = Some([graph |-> [builtBy |-> graphs[id].func.def],
                                       length |-> graphs[id].length])
            /\ id \notin DOMAIN graphs => last'.calls = <<>> /\ last'.out = None
    ]_vars

\* A get has just returned a source for a present identity.
C9_Witness ==
    /\ last.op = "get_graph"
    /\ last.out # None
    /\ Len(last.calls) = 1

\* ------------------------------------------------- claims on the pipeline
\* The sound add_assets is to store for a registry entry.
RenderedSound(entry) ==
    [wave |-> [graph |-> [builtBy |-> entry.func.def], length |-> entry.length,
               sample_rate |-> SampleRate],
     settings |-> entry.settings]

\* The step is a run of generate_assets, or a call of add_assets (EndStage,
\* the one step that keeps `last`, moves stageIdx).
PluginPass == generated' # generated
RenderStep == PluginPass \/ (last'.op = "add_assets" /\ stageIdx' = stageIdx)

StageIndex(label) == CHOOSE i \in DOMAIN StartupSchedule : StartupSchedule[i] = label

\* C2: a render_all that returns yields a table whose key set is the
\* registry's key set at the call: get on the table gives a handle for every
\* registered identity and absent for any other, and each handle is the one
\* the store issued in this call for that entry's rendered sound.
C2_TableCoversRegistry ==
    [][PluginPass /\ panic' = NoPanic =>
        LET t == dspAssets'[1]
        IN  /\ DOMAIN t.handles = DOMAIN graphs
            /\ \A f \in Factories :
                  IF WitnessId(f) \in DOMAIN graphs
                  THEN /\ DspAssetsGetGraph(t, f) # None
                       /\ DspAssetsGetGraph(t, f)[1] \in DOMAIN assets' \ DOMAIN assets
                       /\ assets'[DspAssetsGetGraph(t, f)[1]] =
                             [sound |-> RenderedSound(graphs[WitnessId(f)])]
                  ELSE DspAssetsGetGraph(t, f) = None
            /\ \A j, k \in DOMAIN t.handles : t.handles[j] = t.handles[k] => j = k
    ]_vars

\* The plugin's pass has produced a table for two entries, one of them with
\* custom settings.
C2_Witness ==
    /\ last.op = "generate_assets"
    /\ dspAssets # None
    /\ Cardinality(DOMAIN dspAssets[1].handles) = 2
    /\ \E k \in DOMAIN graphs : graphs[k].settings # DefaultSettings

\* C5: render_all is all-or-nothing for the table.  It panics exactly when
\* some entry fails to convert; then nothing is returned and the table
\* resource is left as it was; a table is returned and installed only when
\* every entry converts.
C5_AllOrNothing ==
    [][RenderStep =>
        /\ panic' # NoPanic <=> last'.bad # {}
        /\ panic' # NoPanic => last'.out = None /\ dspAssets' = dspAssets
        /\ panic' = NoPanic =>
              /\ last'.out # None
              /\ dspAssets' = last'.out
              /\ DOMAIN dspAssets'[1].handles = DOMAIN graphs
    ]_vars

\* A pass has panicked on a decode error after the sound of an earlier entry
\* went into the store; no table was installed.
C5_Witness ==
    /\ panic = PanicCannotConvert
    /\ last.op = "generate_assets"
    /\ Len(last.calls) = 2
    /\ Cardinality(last.bad) = 1
    /\ Len(assets) = 2
    /\ dspAssets = None

\* C6: on the table, expect(F) panics exactly when get(F) is absent and
\* otherwise returns the handle get(F) returns; get(F) never panics; neither
\* changes the table.
C6_ExpectMatchesGet ==
    [][stageIdx' = stageIdx /\ last'.op \in {"assets_get_graph", "assets_graph"} =>
        LET f == last'.f[1]
            id == WitnessId(f)
            t == dspAssets[1]
        IN  /\ dspAssets' = dspAssets
            /\ last'.op = "assets_get_graph" =>
                  /\ panic' = NoPanic
                  /\ last'.out = DspAssetsGetGraph(t, f)
                  /\ last'.out = IF id \in DOMAIN t.handles
                                 THEN Some(t.handles[id]) ELSE None
            /\ last'.op = "assets_graph" =>
                  /\ panic' # NoPanic <=> DspAssetsGetGraph(t, f) = None
                  /\ panic' # NoPanic => panic' = PanicAssetMissing /\ last'.out = None
                  /\ panic' = NoPanic => last'.out = DspAssetsGetGraph(t, f)
    ]_vars

\* expect has panicked on an identity missing from a table that holds
\* another one.
C6_Witness ==
    /\ last.op = "assets_graph"
    /\ panic = PanicAssetMissing
    /\ dspAssets # None
    /\ DOMAIN dspAssets[1].handles # {}

\* C7: the plugin renders once per run, in a stage after Startup and before
\* PostStartup; when PostStartup begins the table resource exists and has a
\* handle for every factory in the registry; from PostStartup on the plugin
\* renders nothing and its table does not change.
C7_StartupOrdering ==
    [][/\ PluginPass =>
              /\ generated = 0
              /\ StageIndex("Startup") < stageIdx
              /\ stageIdx < StageIndex("PostStartup")
       /\ CurStage # "PostStartup" /\ CurStage' = "PostStartup" =>
              /\ generated' = 1
              /\ dspAssets' # None
              /\ DOMAIN dspAssets'[1].handles = DOMAIN graphs'
       /\ CurStage \in {"PostStartup", "Update"} =>
              /\ generated' = generated
              /\ dspAssets' = dspAssets
    ]_vars

\* PostStartup has begun with a table for two factories, and a factory
\* registered since then has no handle.
C7_Witness ==
    /\ CurStage = "PostStartup"
    /\ generated = 1
    /\ dspAssets # None
    /\ Cardinality(DOMAIN dspAssets[1].handles) = 1
    /\ Cardinality(DOMAIN graphs) = 2

\* C8: the store is append-only.  A successful render_all over N entries
\* adds exactly N assets, every asset that was in the store keeps its handle
\* and content, and no other operation changes the store.
C8_StoreAppendOnly ==
    [][/\ ~PluginPass => assets' = assets
       /\ Len(assets') >= Len(assets)
       /\ SubSeq(assets', 1, Len(assets)) = assets
       /\ PluginPass /\ panic' = NoPanic =>
              Len(assets') = Len(assets) + Cardinality(DOMAIN graphs)
    ]_vars

\* A successful pass has added two assets behind the one that was there.
C8_Witness ==
    /\ last.op = "generate_assets"
    /\ panic = NoPanic
    /\ Len(assets) = 3
    /\ assets[1] = OtherAsset

\* C10: a table is a snapshot.  add and remove on the registry leave the
\* installed table as it is, and a render installs a table built from the
\* registry's entries at that call alone: its keys are the registry's keys
\* and every handle is new, none taken over from the table before.
C10_TableIsSnapshot ==
    [][/\ ~RenderStep => dspAssets' = dspAssets
       /\ RenderStep /\ panic' = NoPanic =>
              /\ dspAssets' # None
              /\ DOMAIN dspAssets'[1].handles = DOMAIN graphs
              /\ \A k \in DOMAIN graphs :
                    dspAssets'[1].handles[k] \in DOMAIN assets' \ DOMAIN assets
    ]_vars

\* A render has replaced the table of an earlier render: the earlier one
\* put the sound of one definition in the store, the registry has changed
\* since, and the new table holds only the other definition, under a new
\* handle.
C10_Witness ==
    /\ last.op \in {"generate_assets", "add_assets"}
    /\ panic = NoPanic
    /\ dspAssets # None
    /\ Len(assets) = 3
    /\ Cardinality(DOMAIN dspAssets[1].handles) = 1
    /\ \A k \in DOMAIN dspAssets[1].handles :
          /\ dspAssets[1].handles[k] = 3
          /\ assets[2].sound.wave.graph.builtBy # graphs[k].func.def

====
